---- MODULE Spec2Model ----
(***************************************************************************)
(* Model of the profile-resolution engine (RADOrchestrator) of            *)
(* backend/app/services/rad_orchestrator.py and of the adapters it calls.  *)
(*                                                                         *)
(* Python values are tagged tuples of strings, so that None, "", False, 0  *)
(* and [] stay distinct and comparable.  A dict is a function whose        *)
(* DOMAIN is its key set.  A list object that is shared by reference       *)
(* (self.data_sources) lives in the heap `lists`, addressed by an id.      *)
(* Time stamps (fetched_at, resolved_at) are left out.  The quality score  *)
(* is an exact rational, in units of 1/ScoreOne.                           *)
(***************************************************************************)
EXTENDS Integers, Sequences, FiniteSets, TLC

\* ---------------------------------------------------------------- bounds
NumEmails == 2
MaxConcurrency == 2

\* ---------------------------------------------------------- Python values
PyNone == <<"None">>
Str(t) == <<"str", t>>
PyBool(b) == IF b THEN <<"bool", "True">> ELSE <<"bool", "False">>
PyInt(t) == <<"int", t>>
PyList(t) == <<"list", t>>
\* provider datum of source s, provider field f
Val(s, f) == <<"str", s, f>>

\* Python truthiness of a value: None, "", False, 0 and [] are falsy.
Truthy(v) == v \notin {PyNone, Str(""), PyBool(FALSE), PyInt("0"), PyList("")}

EmptyDict == [k \in {} |-> PyNone]
\* dict.get(key) with default None
Get(d, k) == IF k \in DOMAIN d THEN d[k] ELSE PyNone
\* dict.get(key, default)
GetOr(d, k, dflt) == IF k \in DOMAIN d THEN d[k] ELSE dflt
\* truthiness of a dict: non-empty
DictTruthy(d) == DOMAIN d # {}

Min(a, b) == IF a <= b THEN a ELSE b

\* --------------------------------------------------------------- sources
\* source_names of _fetch_all_sources: the order of raw_data's keys
SourceNames == <<"apollo", "pdl", "hunter", "tavily", "zoominfo">>
Sources == {SourceNames[k] : k \in 1..Len(SourceNames)}

SOURCE_PRIORITY_pdlFirst == [apollo |-> 5, zoominfo |-> 4, pdl |-> 6, hunter |-> 2, tavily |-> 1]
SOURCE_PRIORITY == [apollo |-> 5, zoominfo |-> 4, pdl |-> 3, hunter |-> 2, tavily |-> 1]

\* SOURCE_PRIORITY.get(source_name, 0)
PriorityOf(s) == IF s \in DOMAIN SOURCE_PRIORITY THEN SOURCE_PRIORITY[s] ELSE 0

\* An error marker: {"_error": str(e)}
ErrorMarker(msg) == [k \in {"_error"} |-> Str(msg)]
HasErrorMarker(d) == "_error" \in DOMAIN d

\* `data and not data.get("_error")`: the test the code uses for a usable result
IsUsable(d) == DictTruthy(d) /\ ~Truthy(Get(d, "_error"))

\* ------------------------------------------------------ adapter payloads
\* The keys each adapter returns that the orchestrator reads, plus its identity key.
ProviderKeys(s) ==
    CASE s = "apollo" -> {"email", "first_name", "last_name", "title", "linkedin_url",
                          "company_name", "domain", "industry", "company_size", "city",
                          "state", "country", "seniority"}
      [] s = "pdl" -> {"email", "first_name", "last_name", "full_name", "linkedin_url",
                       "job_title", "job_company_name", "job_company_industry",
                       "job_company_size", "location_country", "location_region",
                       "location_locality", "skills"}
      [] s = "hunter" -> {"email", "status", "result", "score"}
      [] s = "tavily" -> {"domain", "answer", "results"}
      [] s = "zoominfo" -> {"domain", "company_name", "industry", "employee_count", "city",
                            "state", "country", "description", "founded_year"}

\* The dict a keyed adapter builds from a 2xx response that has every field.
RealPayload(s) ==
    [k \in ProviderKeys(s) |->
        CASE s = "hunter" /\ k = "status" -> Str("valid")
          [] s = "hunter" /\ k = "result" -> Str("deliverable")
          [] OTHER -> Val(s, k)]

\* _mock_response of each adapter: the keys it sets, and "_mock": True.
MockKeys(s) ==
    CASE s = "apollo" -> {"email", "first_name", "last_name", "title", "linkedin_url",
                          "company_name", "domain", "industry", "company_size", "country"}
      [] s = "pdl" -> {"email", "location_country", "job_company_industry",
                       "job_company_size", "skills"}
      [] s = "hunter" -> {"email", "status", "result", "score"}
      [] s = "tavily" -> {"domain", "answer", "results"}
      [] s = "zoominfo" -> {"domain", "company_name", "industry", "employee_count", "country"}

MockPayload(s) ==
    [k \in MockKeys(s) \cup {"_mock"} |->
        CASE k = "_mock" -> PyBool(TRUE)
          [] s = "hunter" /\ k = "status" -> Str("valid")
          [] s = "hunter" /\ k = "result" -> Str("deliverable")
          [] s = "hunter" /\ k = "score" -> PyInt("90")
          [] s = "tavily" /\ k = "results" -> PyList("")
          [] s = "zoominfo" /\ k = "employee_count" -> PyInt("100")
          [] OTHER -> <<"str", s, k, "mock">>]

\* What the provider behind a keyed adapter does with one call.
EnvOutcomes == {"ok", "timeout", "crash", "crash_silent"}

\* An adapter's enrich(email, domain): a returned dict, or a raised exception with its
\* str().  has_key is `self.api_key` being set.
AdapterEnrich(s, has_key, env) ==
    IF ~has_key THEN [t |-> "return", dict |-> MockPayload(s), str |-> ""]  \* _mock_response
    ELSE CASE env = "ok" -> [t |-> "return", dict |-> RealPayload(s), str |-> ""]
           \* httpx.TimeoutException -> EnrichmentAPIError(source, "Request timeout"),
           \* whose str() is "<source>: Request timeout"
           [] env = "timeout" ->
                [t |-> "raise", dict |-> EmptyDict, str |-> s \o ": Request timeout"]
           \* any other exception of the call, with a message
           [] env = "crash" -> [t |-> "raise", dict |-> EmptyDict, str |-> "boom"]
           \* an exception whose str() is empty, such as Exception()
           [] env = "crash_silent" -> [t |-> "raise", dict |-> EmptyDict, str |-> ""]

\* _fetch_with_fallback: registered is `self.apis.get(source)` being an adapter.
\* It returns a dict on every path: both except clauses return {"_error": str(e)}.
Returned(d) == [t |-> "return", dict |-> d, str |-> ""]
FetchWithFallback_emptyOnError(s, registered, has_key, env) ==
    IF ~registered THEN Returned(EmptyDict)
    ELSE LET r == AdapterEnrich(s, has_key, env)
         IN IF r.t = "return" THEN Returned(r.dict) ELSE Returned(EmptyDict)
FetchWithFallback_reraise(s, registered, has_key, env) ==
    IF ~registered THEN Returned(ErrorMarker("Unknown source: " \o s))
    ELSE AdapterEnrich(s, has_key, env)
FetchWithFallback(s, registered, has_key, env) ==
    IF ~registered THEN Returned(ErrorMarker("Unknown source: " \o s))
    ELSE LET r == AdapterEnrich(s, has_key, env)
         IN IF r.t = "return" THEN Returned(r.dict) ELSE Returned(ErrorMarker(r.str))

\* ------------------------------------------------------------ the resolver
\* _get_field_mappings: canonical field -> ordered (source, source_field) candidates
Cand(s, f) == [source |-> s, field |-> f]
FieldMappings ==
    << [field |-> "first_name", sources |-> <<Cand("apollo", "first_name"), Cand("pdl", "first_name")>>],
       [field |-> "last_name", sources |-> <<Cand("apollo", "last_name"), Cand("pdl", "last_name")>>],
       [field |-> "full_name", sources |-> <<Cand("pdl", "full_name")>>],
       [field |-> "title", sources |-> <<Cand("apollo", "title"), Cand("pdl", "job_title")>>],
       [field |-> "company_name", sources |-> <<Cand("apollo", "company_name"),
                    Cand("zoominfo", "company_name"), Cand("pdl", "job_company_name")>>],
       [field |-> "industry", sources |-> <<Cand("apollo", "industry"),
                    Cand("zoominfo", "industry"), Cand("pdl", "job_company_industry")>>],
       [field |-> "company_size", sources |-> <<Cand("apollo", "company_size"),
                    Cand("pdl", "job_company_size")>>],
       [field |-> "employee_count", sources |-> <<Cand("zoominfo", "employee_count")>>],
       [field |-> "linkedin_url", sources |-> <<Cand("apollo", "linkedin_url"),
                    Cand("pdl", "linkedin_url")>>],
       [field |-> "city", sources |-> <<Cand("apollo", "city"), Cand("zoominfo", "city"),
                    Cand("pdl", "location_locality")>>],
       [field |-> "state", sources |-> <<Cand("apollo", "state"), Cand("zoominfo", "state"),
                    Cand("pdl", "location_region")>>],
       [field |-> "country", sources |-> <<Cand("apollo", "country"), Cand("zoominfo", "country"),
                    Cand("pdl", "location_country")>>],
       [field |-> "seniority", sources |-> <<Cand("apollo", "seniority")>>],
       [field |-> "skills", sources |-> <<Cand("pdl", "skills")>>],
       [field |-> "company_description", sources |-> <<Cand("zoominfo", "description")>>],
       [field |-> "founded_year", sources |-> <<Cand("zoominfo", "founded_year")>>] >>

GenericFields == {FieldMappings[k].field : k \in 1..Len(FieldMappings)}
SourcesOf(f) == FieldMappings[CHOOSE k \in 1..Len(FieldMappings) : FieldMappings[k].field = f].sources

\* raw_data.get(source_name, {})
RawGet(raw, s) == IF s \in DOMAIN raw THEN raw[s] ELSE EmptyDict

\* The candidate a (source, source_field) pair contributes: lines 322-327.
Survives(c, raw) ==
    LET d == RawGet(raw, c.source)
    IN IsUsable(d) /\ Get(d, c.field) # PyNone /\ Get(d, c.field) # Str("")

\* candidates: the (priority, value) pairs of the surviving sources, in list order
RECURSIVE Candidates(_, _)
Candidates(sources, raw) ==
    IF sources = <<>> THEN <<>>
    ELSE LET c == Head(sources)
             rest == Candidates(Tail(sources), raw)
         IN IF Survives(c, raw)
            THEN <<[priority |-> PriorityOf(c.source),
                    value |-> Get(RawGet(raw, c.source), c.field)]>> \o rest
            ELSE rest

\* list.sort(key=priority, reverse=True): stable, equal keys keep their order
RECURSIVE InsertDesc(_, _)
InsertDesc_beforeEqual(c, sorted) ==
    IF sorted = <<>> THEN <<c>>
    ELSE IF Head(sorted).priority > c.priority
         THEN <<Head(sorted)>> \o InsertDesc(c, Tail(sorted))
         ELSE <<c>> \o sorted
InsertDesc(c, sorted) ==
    IF sorted = <<>> THEN <<c>>
    ELSE IF Head(sorted).priority >= c.priority
         THEN <<Head(sorted)>> \o InsertDesc(c, Tail(sorted))
         ELSE <<c>> \o sorted

RECURSIVE SortDesc(_)
SortDesc(seq) ==
    IF seq = <<>> THEN <<>>
    ELSE InsertDesc(seq[Len(seq)], SortDesc(SubSeq(seq, 1, Len(seq) - 1)))

\* _resolve_field: the value of the first candidate after the sort, or None
ResolveField_listOrderLast(sources, raw) ==
    LET cs == Candidates(sources, raw)
    IN IF cs = <<>> THEN PyNone ELSE cs[Len(cs)].value
ResolveField(sources, raw) ==
    LET cs == Candidates(sources, raw)
    IN IF cs = <<>> THEN PyNone ELSE SortDesc(cs)[1].value

\* The generic loop of _resolve_profile: a field is set when its value is not None.
GenericResolved_keepNone(raw) ==
    [f \in GenericFields |-> ResolveField(SourcesOf(f), raw)]
GenericResolved(raw) ==
    LET value == [f \in GenericFields |-> ResolveField(SourcesOf(f), raw)]
        present == {f \in GenericFields : value[f] # PyNone}
    IN [f \in present |-> value[f]]

HunterFields == {"email_verified", "email_score", "email_deliverable"}
TavilyFields == {"company_context", "recent_news"}

\* Email verification from Hunter: lines 213-217
HunterResolved(raw) ==
    LET h == RawGet(raw, "hunter")
    IN IF IsUsable(h)
       THEN [f \in HunterFields |->
               CASE f = "email_verified" -> PyBool(Get(h, "status") = Str("valid"))
                 [] f = "email_score" -> Get(h, "score")
                 [] f = "email_deliverable" -> PyBool(Get(h, "result") = Str("deliverable"))]
       ELSE EmptyDict

\* Company context from Tavily: lines 220-223
TavilyResolved(raw) ==
    LET t == RawGet(raw, "tavily")
    IN IF IsUsable(t)
       THEN [f \in TavilyFields |->
               CASE f = "company_context" -> Get(t, "answer")
                 [] f = "recent_news" -> GetOr(t, "results", PyList(""))]
       ELSE EmptyDict

\* _resolve_profile
ResolveProfile(raw) ==
    LET g == GenericResolved(raw)
        h == HunterResolved(raw)
        t == TavilyResolved(raw)
    IN [f \in DOMAIN g \cup DOMAIN h \cup DOMAIN t |->
           IF f \in DOMAIN t THEN t[f] ELSE IF f \in DOMAIN h THEN h[f] ELSE g[f]]

\* ------------------------------------------------------------- the scorer
\* The score is kept in units of 1/ScoreOne: ScoreOne stands for 1.0.
ScoreOne == 10 * 60

\* successful_sources: lines 347-350
SuccessfulSources_mockOnly(raw) ==
    Cardinality({s \in DOMAIN raw :
        DictTruthy(raw[s]) /\ ~Truthy(Get(raw[s], "_error")) /\ Truthy(Get(raw[s], "_mock"))})
SuccessfulSources(raw) ==
    Cardinality({s \in DOMAIN raw :
        DictTruthy(raw[s]) /\ ~Truthy(Get(raw[s], "_error")) /\ ~Truthy(Get(raw[s], "_mock"))})

\* priority_bonus: 0.1 for apollo and 0.1 for zoominfo, lines 356-360
PriorityBonus(raw) ==
    (IF DictTruthy(RawGet(raw, "apollo")) /\ ~Truthy(Get(RawGet(raw, "apollo"), "_error"))
     THEN ScoreOne \div 10 ELSE 0)
    + (IF DictTruthy(RawGet(raw, "zoominfo")) /\ ~Truthy(Get(RawGet(raw, "zoominfo"), "_error"))
       THEN ScoreOne \div 10 ELSE 0)

\* _calculate_quality_score, total_sources = len(self.apis) > 0
CalculateQualityScore(raw, total_sources) ==
    Min(ScoreOne, (SuccessfulSources(raw) * ScoreOne) \div total_sources + PriorityBonus(raw))

\* ------------------------------------------------------------------ state
VARIABLES
    emails,             \* the emails of the calls: of enrich_batch's list, or of enrich
    concurrency,        \* enrich_batch's concurrency argument
    kind,               \* per source: "absent" (not in self.apis), "nokey", "keyed"
    sem_value,          \* asyncio.Semaphore._value
    pc,                 \* per call: "waiting", "fetching", "returned", "raised"
    fetched,            \* per call: the gather's result slots, one per source
    self_data_sources,  \* self.data_sources: the id of the list it refers to
    lists,              \* the heap of list objects: id -> contents
    raw_table,          \* the raw_data table: per call, the sources inserted, in order
    result,             \* per call: what it returned or raised
    stages,             \* per call: the stages it has gone through (history)
    adapter_outcome,    \* per call and source: how the adapter call ended (history)
    batch_result,       \* what enrich_batch returned
    fn_pc,              \* the resolver and scorer called on their own: the calls made
    fn_raw,             \* their raw_data argument
    fn_sources,         \* the sources argument of _resolve_field
    fn_profile,         \* the profile argument of should_use_opus
    fn_out,             \* what they returned
    route_pc,           \* POST /rad/enrich: where the handler is
    response,           \* POST /rad/enrich: the HTTP status it answered, 0 before
    finalize_table,     \* the finalize_data table: the records upserted
    get_response,       \* GET /rad/profile/{email}: the last answer
    health_response,    \* GET /rad/health: the last answer
    compliance_result,  \* POST /rad/enrich: what compliance_service.check returned (history)
    upsert_calls,       \* the upsert_finalize_data calls made, in order (history)
    llm_pc,             \* generate_personalization: "idle", "calling", "returned", "raised"
    llm_providers,      \* the names of self.providers of the LLMService, in order
    llm_attempt,        \* the _call_provider calls made so far
    llm_calls,          \* those calls: the provider called, whether it gave text (history)
    llm_chain,          \* what _call_with_fallback returned, and how _parse_response
                        \* of it ended: "no" when not called (history)
    llm_profile,        \* its normalized_profile argument
    llm_result          \* what it returned

vars == <<emails, concurrency, kind, sem_value, pc, fetched, self_data_sources, lists,
          raw_table, result, stages, adapter_outcome, batch_result, fn_pc, fn_raw, fn_sources,
          fn_profile, fn_out, route_pc, response, finalize_table, get_response, health_response,
          compliance_result, upsert_calls,
          llm_pc, llm_providers, llm_attempt, llm_calls, llm_chain, llm_profile, llm_result>>
inputVars == <<emails, concurrency, kind>>
fnVars == <<fn_pc, fn_raw, fn_sources, fn_profile, fn_out>>
routeVars == <<route_pc, response, finalize_table, get_response, health_response,
               compliance_result, upsert_calls>>
llmVars == <<llm_pc, llm_providers, llm_attempt, llm_calls, llm_chain, llm_profile, llm_result>>
svcVars == <<routeVars, llmVars>>

Calls == 1..Len(emails)

\* An email is held as its parts around "@": email.split("@")
\* the i-th email of a list is well formed, user_i@acme.com, or has no "@"
EmailChoices(i) == {<<<<"jane", "raj", "li", "ana">>[i], "acme.com">>, <<"nobody">>}
EmailLists(n) == {es \in [1..n -> UNION {EmailChoices(i) : i \in 1..n}] :
                     \A i \in 1..n : es[i] \in EmailChoices(i)}

\* A gather slot whose task has not finished
AllPending == [s \in Sources |-> [t |-> "pending", dict |-> EmptyDict, str |-> ""]]

NoResult == [kind |-> "none", email |-> <<>>, domain |-> "", data_sources |-> 0 - 1,
             data_quality_score |-> 0, fields |-> EmptyDict, error |-> ""]
\* the profile dict enrich returns: its canonical fields and its metadata
Profile(e, d, fields, ds, score) ==
    [kind |-> "profile", email |-> e, domain |-> d, data_sources |-> ds,
     data_quality_score |-> score, fields |-> fields, error |-> ""]
\* {"email": email, "_error": str(e)} of enrich_with_semaphore
ErrorEntry(e, msg) == [NoResult EXCEPT !.kind = "error", !.email = e, !.error = msg]
\* an exception leaving enrich
Raised(msg) == [NoResult EXCEPT !.kind = "raised", !.error = msg]

\* ------------------------------------------------------- enrich, in pieces
\* `domain = email.split("@")[1]` raises IndexError for an email without "@"
DomainRaises(e) == Len(e) < 2
DomainOf(e) == e[2]

\* asyncio.gather(*tasks) is done when every task is
GatherDone_first(slots) == \E s \in Sources : slots[s].t # "pending"
GatherDone(slots) == \A s \in Sources : slots[s].t # "pending"

\* _fetch_all_sources after the gather(return_exceptions=True): raw_data keyed by
\* source_names, a task's exception turned into {"_error": str(result)}
FetchAllSources(slots) ==
    [s \in Sources |->
        IF slots[s].t = "raise" THEN ErrorMarker(slots[s].str) ELSE slots[s].dict]

\* The sources the loop of lines 89-92 stores and appends, in raw_data's order
UsableSeq(raw) ==
    LET Test(s) == s \in DOMAIN raw /\ IsUsable(raw[s])
    IN SelectSeq(SourceNames, Test)

\* list elements carry who appended them (history); the list holds the source names
Tagged(seq, i) == [k \in 1..Len(seq) |-> [src |-> seq[k], by |-> i]]
NamesOf(l) == [k \in 1..Len(l) |-> l[k].src]

\* len(self.apis)
TotalSources == Cardinality({s \in Sources : kind[s] # "absent"})

\* asyncio.Semaphore: acquire proceeds when the value is positive
SemCanAcquire_always(v) == TRUE
SemCanAcquire(v) == v > 0
\* `async with semaphore` releases the permit when its body is left, by a return
\* (the except clause of enrich_with_semaphore caught an exception: failed) or not
SemRelease_onSuccess(v, failed) == IF failed THEN v ELSE v + 1
SemRelease(v, failed) == v + 1

\* Lines 77-86 of enrich, up to the await of the fan-out, for call i.
\* caught: the caller is enrich_with_semaphore, which turns an exception into an entry.
EnrichBegin(i, caught) ==
    /\ self_data_sources' = i
    /\ lists' = [lists EXCEPT ![i] = <<>>]
    /\ IF DomainRaises(emails[i])
       THEN /\ stages' = [stages EXCEPT ![i] = <<"START", "FAILED">>]
            /\ pc' = [pc EXCEPT ![i] = IF caught THEN "returned" ELSE "raised"]
            /\ result' = [result EXCEPT ![i] =
                    IF caught THEN ErrorEntry(emails[i], "list index out of range")
                    ELSE Raised("list index out of range")]
            /\ UNCHANGED fetched
       ELSE /\ stages' = [stages EXCEPT ![i] = <<"START", "FETCHING">>]
            /\ pc' = [pc EXCEPT ![i] = "fetching"]
            /\ fetched' = [fetched EXCEPT ![i] = AllPending]
            /\ UNCHANGED result

\* An exception other than an adapter's or the store's, raised while
\* _resolve_profile (line 95) or _calculate_quality_score (line 102) runs
ResolveFault == Len(SourceNames) + 1
ScoreFault == Len(SourceNames) + 2
FailPoints == 0..ScoreFault

\* The loop of lines 89-92 stores the usable results one by one, before line 95:
\* what is in the raw_data table when enrich ends
StoredBefore(usable, failAt) ==
    IF failAt \in 1..Len(usable) THEN SubSeq(usable, 1, failAt - 1) ELSE usable

\* Lines 86-105 of enrich after the fan-out has returned, for call i.
\* failAt: 0 when nothing raises, k when the k-th store_raw_data call raises,
\* ResolveFault or ScoreFault when that step raises.
EnrichEnd(i, failAt, caught) ==
    LET raw == FetchAllSources(fetched[i])
        usable == UsableSeq(raw)
        stored == StoredBefore(usable, failAt)
        e == emails[i]
    IN /\ failAt \in (0..Len(usable)) \cup {ResolveFault, ScoreFault}
       /\ raw_table' = [raw_table EXCEPT ![i] = @ \o stored]
       /\ lists' = [lists EXCEPT ![self_data_sources] = @ \o Tagged(stored, i)]
       /\ UNCHANGED self_data_sources
       /\ IF failAt # 0
          THEN LET msg == IF failAt \in 1..Len(usable) THEN "store failed" ELSE "unexpected"
               IN /\ stages' = [stages EXCEPT ![i] = @ \o
                          (CASE failAt = ResolveFault -> <<"RESOLVING", "FAILED">>
                             [] failAt = ScoreFault -> <<"RESOLVING", "SCORED", "FAILED">>
                             [] OTHER -> <<"FAILED">>)]
                  /\ pc' = [pc EXCEPT ![i] = IF caught THEN "returned" ELSE "raised"]
                  /\ result' = [result EXCEPT ![i] =
                          IF caught THEN ErrorEntry(e, msg) ELSE Raised(msg)]
          ELSE /\ stages' = [stages EXCEPT ![i] = @ \o <<"RESOLVING", "SCORED", "DONE">>]
               /\ pc' = [pc EXCEPT ![i] = "returned"]
               /\ result' = [result EXCEPT ![i] =
                       Profile(e, DomainOf(e), ResolveProfile(raw), self_data_sources,
                               CalculateQualityScore(raw, TotalSources))]

\* ---------------------------------------------------------------- actions
\* The fan-out's tasks start in the order of the list of lines 126-132.  A task whose
\* adapter never suspends (no key: the mock response; no adapter: the error dict) ends
\* in its first step, so these end in that order; a keyed adapter awaits the network
\* and ends at any time.
RunsInTurn(i, s) ==
    LET SourceIndex(x) == CHOOSE k \in 1..Len(SourceNames) : SourceNames[k] = x
    IN kind[s] # "keyed" =>
           \A t \in Sources :
               (kind[t] # "keyed" /\ SourceIndex(t) < SourceIndex(s)) => fetched[i][t].t # "pending"

\* One task of the fan-out finishes: _fetch_with_fallback(source) of call i returns.
AdapterReturn(i, s, env) ==
    /\ pc[i] = "fetching"
    /\ fetched[i][s].t = "pending"
    /\ RunsInTurn(i, s)
    /\ fetched' = [fetched EXCEPT ![i][s] =
            FetchWithFallback(s, kind[s] # "absent", kind[s] = "keyed", env)]
    /\ adapter_outcome' = [adapter_outcome EXCEPT ![i][s] =
            IF kind[s] = "absent" THEN "unknown"
            ELSE AdapterEnrich(s, kind[s] = "keyed", env).t]
    /\ UNCHANGED <<svcVars, inputVars, sem_value, pc, self_data_sources, lists, raw_table, result,
                   stages, batch_result, fnVars>>

\* enrich(email) called directly: runs to the await of the fan-out.
EnrichCall(i) ==
    /\ pc[i] = "waiting"
    /\ EnrichBegin(i, FALSE)
    /\ UNCHANGED <<svcVars, inputVars, sem_value, raw_table, batch_result, fnVars, adapter_outcome>>

\* enrich resumes after the fan-out and runs to its return or raise.
EnrichReturn(i, failAt) ==
    /\ pc[i] = "fetching"
    /\ GatherDone(fetched[i])
    /\ EnrichEnd(i, failAt, FALSE)
    /\ UNCHANGED <<svcVars, inputVars, sem_value, fetched, batch_result, fnVars, adapter_outcome>>

\* enrich_with_semaphore(email) enters `async with semaphore` and runs enrich to its
\* first await.  Waiters are admitted first-come first-served, in list order.
Admit(i) ==
    /\ pc[i] = "waiting"
    /\ \A j \in Calls : j < i => pc[j] # "waiting"
    /\ SemCanAcquire(sem_value)
    /\ EnrichBegin(i, TRUE)
    \* an enrich that raised at once has released the permit again
    /\ sem_value' = IF DomainRaises(emails[i]) THEN SemRelease(sem_value - 1, TRUE)
                    ELSE sem_value - 1
    /\ UNCHANGED <<svcVars, inputVars, raw_table, batch_result, fnVars, adapter_outcome>>

\* enrich_with_semaphore resumes after the fan-out: enrich ends, an exception becomes
\* an error entry, and the permit is released.
Release(i, failAt) ==
    /\ pc[i] = "fetching"
    /\ GatherDone(fetched[i])
    /\ EnrichEnd(i, failAt, TRUE)
    /\ sem_value' = SemRelease(sem_value, failAt # 0)
    /\ UNCHANGED <<svcVars, inputVars, fetched, batch_result, fnVars, adapter_outcome>>

\* The gather of enrich_batch returns the results in the order of the emails.
BatchReturn ==
    /\ batch_result = <<>>
    /\ Calls # {}
    /\ \A i \in Calls : pc[i] = "returned"
    /\ batch_result' = [i \in Calls |-> result[i]]
    /\ UNCHANGED <<svcVars, inputVars, sem_value, pc, fetched, self_data_sources, lists, raw_table,
                   result, stages, fnVars, adapter_outcome>>

\* ---------------------------------------------------------- specifications
AllKeysConfigs == [Sources -> {"nokey", "keyed"}]

InitCalls(es) ==
    /\ emails = es
    /\ pc = [i \in 1..Len(es) |-> "waiting"]
    /\ fetched = [i \in 1..Len(es) |-> AllPending]
    /\ self_data_sources = 0
    /\ lists = [id \in 0..Len(es) |-> <<>>]
    /\ raw_table = [i \in 1..Len(es) |-> <<>>]
    /\ result = [i \in 1..Len(es) |-> NoResult]
    /\ stages = [i \in 1..Len(es) |-> <<>>]
    /\ adapter_outcome = [i \in 1..Len(es) |-> [s \in Sources |-> "pending"]]
    /\ batch_result = <<>>

FnNoOut == [normalized |-> EmptyDict, score |-> 0 - 1, value |-> PyNone, use_opus |-> FALSE]
\* no request handled and no personalization asked for
NoGetResponse == [status |-> 0, email |-> <<>>, stored |-> FALSE, db |-> "none"]
NoHealthResponse == [status |-> 0, body |-> "none", db |-> "none"]
NoComplianceResult ==
    [t |-> "none", passed |-> FALSE, corrected_intro |-> PyNone, corrected_cta |-> PyNone]
NoLLMResult == [intro_hook |-> <<>>, cta |-> <<>>, model_used |-> "none"]
NoLLMChain == [t |-> "pending", content |-> "none", provider |-> "", parsed |-> "no"]
NoLLMProfile == [first_name |-> <<>>, company_name |-> <<>>, title |-> <<>>,
                 industry |-> "other", goal |-> "", persona |-> ""]
InitRoutesIdle ==
    /\ route_pc = "idle"
    /\ response = 0
    /\ finalize_table = {}
    /\ get_response = NoGetResponse
    /\ health_response = NoHealthResponse
    /\ compliance_result = NoComplianceResult
    /\ upsert_calls = <<>>
InitLLMIdle ==
    /\ llm_pc = "idle"
    /\ llm_providers = <<>>
    /\ llm_attempt = 0
    /\ llm_calls = <<>>
    /\ llm_chain = NoLLMChain
    /\ llm_profile = NoLLMProfile
    /\ llm_result = NoLLMResult
InitFnIdle ==
    /\ fn_pc = {}
    /\ fn_raw = EmptyDict
    /\ fn_sources = <<>>
    /\ fn_profile = EmptyDict
    /\ fn_out = FnNoOut
    /\ InitRoutesIdle
    /\ InitLLMIdle

\* enrich_batch(emails, concurrency) on a fresh orchestrator
BatchConfigs ==
    {[s \in Sources |-> "nokey"], [[s \in Sources |-> "nokey"] EXCEPT !["apollo"] = "keyed"]}

Init ==
    /\ \E es \in EmailLists(NumEmails) : InitCalls(es)
    /\ concurrency \in 1..MaxConcurrency
    /\ sem_value = concurrency
    /\ kind \in BatchConfigs
    /\ InitFnIdle

\* In the batch a keyed provider answers, fails with a message or fails without one.
BatchEnvOutcomes == {"ok", "timeout", "crash_silent"}

Next ==
    \/ \E i \in Calls : Admit(i)
    \/ \E i \in Calls, s \in Sources, env \in BatchEnvOutcomes : AdapterReturn(i, s, env)
    \/ \E i \in Calls, failAt \in FailPoints : Release(i, failAt)
    \/ BatchReturn

Spec == Init /\ [][Next]_vars

\* The event loop runs every task that can run, and every adapter call and every
\* persistence call ends: a call that can be admitted is admitted, a task of a fan-out
\* ends, a call whose fan-out is complete ends, and the gather of the batch returns.
\* The Release steps of a call, one for each fail point, are enabled together, and any
\* one of them disables them all for good: weak fairness of the one at ResolveFault
\* says that the call ends, in whichever way.
SpecFair ==
    /\ Spec
    /\ \A i \in 1..NumEmails : WF_vars(Admit(i))
    /\ \A i \in 1..NumEmails, s \in Sources :
           WF_vars(\E env \in BatchEnvOutcomes : AdapterReturn(i, s, env))
    /\ \A i \in 1..NumEmails : WF_vars(Release(i, ResolveFault))
    /\ WF_vars(BatchReturn)

\* one enrich(email) call on a fresh orchestrator: get_enrichment_apis() registers all
\* five adapters, each with or without its key
InitEnrich ==
    /\ \E es \in EmailLists(1) : InitCalls(es)
    /\ concurrency = 0
    /\ sem_value = 0
    /\ kind \in AllKeysConfigs
    /\ InitFnIdle

NextEnrich ==
    \/ \E i \in Calls : EnrichCall(i)
    \/ \E i \in Calls, s \in Sources, env \in EnvOutcomes : AdapterReturn(i, s, env)
    \/ \E i \in Calls, failAt \in FailPoints : EnrichReturn(i, failAt)

SpecEnrich == InitEnrich /\ [][NextEnrich]_vars

\* one enrich(email) call on an orchestrator whose self.apis may lack at most one name
InitAnyApis ==
    /\ \E es \in EmailLists(1) : InitCalls(es)
    /\ concurrency = 0
    /\ sem_value = 0
    /\ kind \in AllKeysConfigs
                \cup {[c EXCEPT ![s] = "absent"] : c \in AllKeysConfigs, s \in Sources}
    /\ InitFnIdle

SpecAnyApis == InitAnyApis /\ [][NextEnrich]_vars

\* ------------------------------------- the resolver and the scorer alone
\* What one candidate source may hold for the source field a canonical field reads.
\* "error", "empty", "missing", "none", "blank", "x", "y" or "zero"
Shape(choice, source_field) ==
    LET base == [k \in {"email"} |-> Str("e")]
        With(v) == [k \in {"email", source_field} |-> IF k = "email" THEN Str("e") ELSE v]
    IN CASE choice = "error" -> ErrorMarker("boom")
         [] choice = "empty" -> EmptyDict
         [] choice = "missing" -> base
         [] choice = "none" -> With(PyNone)
         [] choice = "blank" -> With(Str(""))
         [] choice = "x" -> With(Str("x"))
         [] choice = "y" -> With(Str("y"))
         [] choice = "zero" -> With(PyInt("0"))

CandidateSources(f) == {SourcesOf(f)[k].source : k \in 1..Len(SourcesOf(f))}
SourceFieldOf(f, s) ==
    SourcesOf(f)[CHOOSE k \in 1..Len(SourcesOf(f)) : SourcesOf(f)[k].source = s].field

\* raw data that varies the candidates of one canonical field, the other sources whole
FieldRaws ==
    UNION {{[s \in Sources |->
                IF s \in CandidateSources(f) THEN Shape(pick[s], SourceFieldOf(f, s))
                ELSE RealPayload(s)] :
            pick \in [CandidateSources(f) ->
                        {"error", "empty", "missing", "none", "blank", "x", "y", "zero"}]} : f \in GenericFields}

\* raw data that varies what kind of result each source gave
StatusChoices == {"real", "mock", "error", "error_silent", "empty"}
StatusShape(choice, s) ==
    CASE choice = "real" -> RealPayload(s)
      [] choice = "mock" -> MockPayload(s)
      [] choice = "error" -> ErrorMarker("boom")
      [] choice = "error_silent" -> ErrorMarker("")
      [] choice = "empty" -> EmptyDict
StatusRaws == {[s \in Sources |-> StatusShape(pick[s], s)] : pick \in [Sources -> StatusChoices]}

\* raw data that varies what the results of hunter and tavily hold for the keys the
\* special-cased fields read: the provider's datum, the mock's, None (the provider's
\* answer lacked it: the adapter stores data.get(key)), or no such key
SpecialShape(choice, s) ==
    LET key == IF s = "hunter" THEN "score" ELSE "answer"
    IN
    CASE choice = "real" -> RealPayload(s)
      [] choice = "mock" -> MockPayload(s)
      [] choice = "null" -> [k \in ProviderKeys(s) |->
                                IF k = key THEN PyNone ELSE RealPayload(s)[k]]
      [] choice = "missing" -> [k \in ProviderKeys(s) \ {key} |-> RealPayload(s)[k]]
      [] choice = "error" -> ErrorMarker("boom")
      [] choice = "empty" -> EmptyDict
SpecialRaws ==
    {[s \in Sources |->
         IF s \in {"hunter", "tavily"} THEN SpecialShape(pick[s], s) ELSE RealPayload(s)] :
     pick \in [{"hunter", "tavily"} -> {"real", "mock", "null", "missing", "error", "empty"}]}

InitPure ==
    /\ InitCalls(<<>>)
    /\ concurrency = 0
    /\ sem_value = 0
    /\ kind = [s \in Sources |-> "keyed"]
    /\ fn_pc = {}
    /\ fn_raw \in FieldRaws \cup StatusRaws \cup SpecialRaws
    /\ fn_sources = <<>>
    /\ fn_profile = EmptyDict
    /\ fn_out = FnNoOut
    /\ InitRoutesIdle
    /\ InitLLMIdle

batchVars == <<sem_value, pc, fetched, self_data_sources, lists, raw_table, result, stages,
               adapter_outcome, batch_result>>

\* _resolve_profile(email, domain, raw_data)
CallResolveProfile ==
    /\ "resolve" \notin fn_pc
    /\ fn_pc' = fn_pc \cup {"resolve"}
    /\ fn_out' = [fn_out EXCEPT !.normalized = ResolveProfile(fn_raw)]
    /\ UNCHANGED <<svcVars, inputVars, batchVars, fn_raw, fn_sources, fn_profile>>

\* _calculate_quality_score(raw_data)
CallQualityScore ==
    /\ "score" \notin fn_pc
    /\ fn_pc' = fn_pc \cup {"score"}
    /\ fn_out' = [fn_out EXCEPT !.score = CalculateQualityScore(fn_raw, TotalSources)]
    /\ UNCHANGED <<svcVars, inputVars, batchVars, fn_raw, fn_sources, fn_profile>>

NextPure == CallResolveProfile \/ CallQualityScore

SpecPure == InitPure /\ [][NextPure]_vars

\* ------------------------------------------------ the personalization service
\* Text is a sequence of characters; what matters of a character is whether it is
\* white space, so a literal of the source is written by its length.
MaxOver == 2
MaxProviders == 2

MAX_RETRIES == 2
MAX_INTRO_LENGTH == 200
MAX_CTA_LENGTH == 150

Rep(c, n) == [k \in 1..n |-> c]
\* str.strip()
RECURSIVE LStrip(_), RStrip(_)
LStrip(s) == IF s # <<>> /\ Head(s) = " " THEN LStrip(Tail(s)) ELSE s
RStrip(s) == IF s # <<>> /\ s[Len(s)] = " " THEN RStrip(SubSeq(s, 1, Len(s) - 1)) ELSE s
Strip(s) == RStrip(LStrip(s))
\* s[:n]
Take(s, n) == SubSeq(s, 1, Min(n, Len(s)))

\* a value of the JSON object a provider answered: no such key, null, a number, a string
JMissing == <<"missing">>
JNull == <<"null">>
JNum == <<"num">>
JStr(s) == <<"str", s>>
IsJStr(v) == v[1] = "str"

\* What one _call_provider call meets: the provider's call raises, or answers with no
\* content, with "", with text that holds no JSON object naming "intro_hook" and then
\* "cta", with such an object that json.loads rejects, or with such an object.
ProviderOutcome(form, intro, cta) == [form |-> form, intro |-> intro, cta |-> cta]
JVals(max) ==
    {JMissing, JNull, JNum}
    \cup {JStr(Rep(" ", p) \o Rep("x", n) \o Rep(" ", p)) :
             p \in 0..1, n \in {0, 1} \cup ((max - 1)..(max + MaxOver))}
ProviderOutcomes ==
    {ProviderOutcome(f, JMissing, JMissing) : f \in {"exception", "none", "empty", "prose", "badjson"}}
    \cup {ProviderOutcome("json", i, c) : i \in JVals(MAX_INTRO_LENGTH), c \in JVals(MAX_CTA_LENGTH)}

\* _call_provider: the text, or None when the call raised (lines 173-175)
CallProvider(out) == IF out.form = "exception" THEN ProviderOutcome("none", JMissing, JMissing) ELSE out
\* `if result:` and `if content:` - None and "" are false
ContentTruthy(content) == content.form \notin {"none", "empty"}

\* lines 418-421: a text over the limit is cut to limit - 3 characters and "..."
Truncate_wholeLimit(s, max) ==
    IF Len(s) > max THEN SubSeq(s, 1, max) \o <<".", ".", ".">> ELSE s
Truncate(s, max) ==
    IF Len(s) > max THEN SubSeq(s, 1, max - 3) \o <<".", ".", ".">> ELSE s

\* _parse_response: "none" for None, "raise" for an exception that is not a
\* JSONDecodeError: data.get(key, "").strip() of a value that is not a string
Parsed(t, intro, cta) == [t |-> t, intro_hook |-> intro, cta |-> cta]
GetText(v) == IF IsJStr(v) THEN v[2] ELSE <<>>
ParseResponse(content) ==
    IF content.form # "json" THEN Parsed("none", <<>>, <<>>)
    ELSE IF content.intro \in {JNull, JNum} \/ content.cta \in {JNull, JNum}
         THEN Parsed("raise", <<>>, <<>>)
    ELSE LET intro == Strip(GetText(content.intro))
             cta == Strip(GetText(content.cta))
         IN IF intro # <<>> /\ cta # <<>>
            THEN Parsed("return", Truncate(intro, MAX_INTRO_LENGTH), Truncate(cta, MAX_CTA_LENGTH))
            ELSE Parsed("none", <<>>, <<>>)

\* the lengths of the literals of _mock_response
DefaultHookLen == 73
HealthcareHookLen == 126
EvaluatingIntroLen == 69
ShortIntroLen == 50
ExecutiveCtaLen == 58
DefaultCtaLen == 68
TitleCtaHeadLen == 49
TitleCtaTailLen == 10
CompanyHeadLen == 4
CompanyTailLen == 39

LLMResult(intro, cta, model) == [intro_hook |-> intro, cta |-> cta, model_used |-> model]

\* _mock_response(profile, user_context)
MockResponse(p) ==
    LET base_hook == IF p.industry = "healthcare" THEN Rep("x", HealthcareHookLen)
                     ELSE Rep("x", DefaultHookLen)
        goal_hook == IF p.goal = "evaluating" THEN Rep("x", EvaluatingIntroLen) ELSE <<>>
        joined == Strip(goal_hook \o <<" ">> \o base_hook)
        intro == IF p.first_name # <<>> /\ p.company_name # <<>>
                 THEN IF Len(joined) < ShortIntroLen
                      THEN joined \o Rep("x", CompanyHeadLen) \o p.company_name
                                  \o Rep("x", CompanyTailLen)
                      ELSE joined
                 ELSE IF p.first_name # <<>> THEN joined
                 ELSE base_hook
        cta == IF p.persona = "executive" THEN Rep("x", ExecutiveCtaLen)
               ELSE IF p.title # <<>>
                    THEN Rep("x", TitleCtaHeadLen) \o p.title \o Rep("x", TitleCtaTailLen)
               ELSE Rep("x", DefaultCtaLen)
    IN LLMResult(Take(intro, MAX_INTRO_LENGTH), Take(cta, MAX_CTA_LENGTH), "mock")

ProviderNames == <<"anthropic", "openai", "gemini">>
\* LLMService.__init__: self.providers holds, in this order, the providers whose key
\* is set
LLMServiceInit(keys) ==
    LET HasKey(n) == n \in keys
    IN SelectSeq(ProviderNames, HasKey)

\* _call_with_fallback, lines 196-204: `for provider in self.providers: for attempt in
\* range(MAX_RETRIES)` - the provider of the call made after `calls` calls, and whether
\* the loops are over
CurrentProvider_roundRobin(providers, calls) == providers[(calls % Len(providers)) + 1]
CurrentProvider(providers, calls) == providers[(calls \div MAX_RETRIES) + 1]
ChainExhausted(providers, calls) == calls = Len(providers) * MAX_RETRIES
\* what it returns: (result, provider["name"]) or (None, "none")
ChainReturn(form, provider) ==
    [t |-> "return", content |-> form, provider |-> provider, parsed |-> "no"]

\* generate_personalization(normalized_profile, user_context) is called: without a
\* provider it answers the mock response at once (lines 224-225)
GenerateBegin(p) ==
    /\ llm_profile' = p
    /\ llm_attempt' = 0
    /\ llm_calls' = <<>>
    /\ llm_chain' = NoLLMChain
    /\ IF llm_providers = <<>>
       THEN /\ llm_pc' = "returned"
            /\ llm_result' = MockResponse(p)
       ELSE /\ llm_pc' = "calling"
            /\ llm_result' = NoLLMResult
    /\ UNCHANGED llm_providers

\* One _call_provider call of _call_with_fallback, out being what it meets, and what
\* follows it: the next attempt; or with content, or after the last attempt of the
\* last provider, the rest of generate_personalization (lines 234-256).
GenerateStep(out) ==
    LET content == CallProvider(out)
        provider == CurrentProvider(llm_providers, llm_attempt)
        parsed == ParseResponse(content)
    IN /\ llm_attempt' = llm_attempt + 1
       /\ llm_calls' = Append(llm_calls, [provider |-> provider, ok |-> ContentTruthy(content)])
       /\ llm_chain' = IF ContentTruthy(content)
                       THEN [ChainReturn(content.form, provider) EXCEPT !.parsed = parsed.t]
                       ELSE IF ChainExhausted(llm_providers, llm_attempt + 1)
                            THEN ChainReturn("none", "none")
                       ELSE llm_chain
       /\ UNCHANGED <<llm_providers, llm_profile>>
       /\ IF ContentTruthy(content)
          THEN CASE parsed.t = "raise" ->
                      /\ llm_pc' = "raised"
                      /\ UNCHANGED llm_result
                 [] parsed.t = "return" ->
                      /\ llm_pc' = "returned"
                      /\ llm_result' = LLMResult(parsed.intro_hook, parsed.cta, provider)
                 [] OTHER ->
                      /\ llm_pc' = "returned"
                      /\ llm_result' = MockResponse(llm_profile)
          ELSE IF ChainExhausted(llm_providers, llm_attempt + 1)
               THEN /\ llm_pc' = "returned"
                    /\ llm_result' = MockResponse(llm_profile)
               ELSE UNCHANGED <<llm_pc, llm_result>>

\* generate_personalization called on its own
LLMCall ==
    /\ llm_pc = "idle"
    /\ GenerateBegin(llm_profile)
    /\ UNCHANGED <<routeVars, inputVars, batchVars, fnVars>>

ProviderAttempt(out) ==
    /\ llm_pc = "calling"
    /\ route_pc = "idle"
    /\ GenerateStep(out)
    /\ UNCHANGED <<routeVars, inputVars, batchVars, fnVars>>

\* the profiles and user contexts it is called with
LLMProfiles ==
    [first_name : {<<>>, <<"x">>}, company_name : {<<>>, <<"x">>},
     title : {Rep("x", n) :
                 n \in {0, 1} \cup ((MAX_CTA_LENGTH - TitleCtaHeadLen - TitleCtaTailLen - 1)
                                    ..(MAX_CTA_LENGTH - TitleCtaHeadLen - TitleCtaTailLen + MaxOver))},
     industry : {"healthcare", "other"},
     goal : {"", "evaluating"}, persona : {"", "executive"}]

\* the services it is called on: at most MaxProviders keys are set
ConfiguredProviders ==
    {LLMServiceInit(keys) : keys \in {K \in SUBSET {ProviderNames[k] : k \in 1..Len(ProviderNames)} :
                                         Cardinality(K) <= MaxProviders}}

InitLLM ==
    /\ InitCalls(<<>>)
    /\ concurrency = 0
    /\ sem_value = 0
    /\ kind = [s \in Sources |-> "keyed"]
    /\ fn_pc = {}
    /\ fn_raw = EmptyDict
    /\ fn_sources = <<>>
    /\ fn_profile = EmptyDict
    /\ fn_out = FnNoOut
    /\ InitRoutesIdle
    /\ llm_pc = "idle"
    /\ llm_providers \in ConfiguredProviders
    /\ llm_attempt = 0
    /\ llm_calls = <<>>
    /\ llm_chain = NoLLMChain
    /\ llm_profile \in LLMProfiles
    /\ llm_result = NoLLMResult

NextLLM ==
    \/ LLMCall
    \/ \E out \in ProviderOutcomes : ProviderAttempt(out)

SpecLLM == InitLLM /\ [][NextLLM]_vars

\* ------------------------------------------------------------ the routes
\* request.email.lower().strip() and email.lower().strip(): lines 66 and 159
NormalizeEmail(e) == <<IF e[1] = "JANE" THEN "jane" ELSE e[1], e[2]>>
RequestEmails == {<<"jane", "acme.com">>, <<"JANE", "acme.com">>, <<"raj", "acme.com">>}

\* the except clauses of enrich_profile, lines 116-127
RouteStatus_ok(exc) == 200
RouteStatus(exc) == IF exc = "ValueError" THEN 400 ELSE 500

\* what the resolved profile gives generate_personalization to read: a datum is
\* text, None and "" are not
TextOf(v) == IF Truthy(v) THEN <<"x">> ELSE <<>>
ProfileForLLM(fields) ==
    [NoLLMProfile EXCEPT !.first_name = TextOf(Get(fields, "first_name")),
                         !.company_name = TextOf(Get(fields, "company_name")),
                         !.title = TextOf(Get(fields, "title"))]

\* ComplianceService.check(intro_hook, cta, auto_correct=True): whether the texts
\* passed, and the corrected texts, each of which may be missing
ComplianceResult(passed, intro, cta) ==
    [t |-> "result", passed |-> passed, corrected_intro |-> intro, corrected_cta |-> cta]
ComplianceResults ==
    {ComplianceResult(p, i, c) : p \in BOOLEAN,
                                 i \in {PyNone, Str(""), Str("corrected_intro")},
                                 c \in {PyNone, Str("corrected_cta")}}
\* a text the personalization generated
Generated(text) == <<"generated", text>>
\* compliance_service.get_safe_intro(finalized) and get_safe_cta(finalized)
SafeIntro == Str("safe_intro")
SafeCta == Str("safe_cta")

\* lines 81-96: the texts the handler keeps - the generated ones, the corrected ones
\* when the check did not pass and gave a corrected intro, else the safe ones
KeptTexts_generated(personalization, c) ==
    [intro |-> Generated(personalization.intro_hook), cta |-> Generated(personalization.cta)]
KeptTexts(personalization, c) ==
    IF ~c.passed /\ Truthy(c.corrected_intro)
    THEN [intro |-> c.corrected_intro, cta |-> c.corrected_cta]
    ELSE IF ~c.passed THEN [intro |-> SafeIntro, cta |-> SafeCta]
    ELSE [intro |-> Generated(personalization.intro_hook), cta |-> Generated(personalization.cta)]

\* upsert_finalize_data: on_conflict="email" replaces the record of the email
FinalizeRecord(e, kept) == [email |-> e, intro |-> kept.intro, cta |-> kept.cta]
Upsert(table, rec) == {r \in table : r.email # rec.email} \cup {rec}
\* get_finalize_data: the record, or None - also when the query raises (lines 214-216)
NoRecord == [email |-> <<>>, intro |-> PyNone, cta |-> PyNone]
GetFinalizeData(table, e, db) ==
    IF db = "error" THEN NoRecord
    ELSE IF \E r \in table : r.email = e THEN CHOOSE r \in table : r.email = e
    ELSE NoRecord
\* SupabaseClient.health_check: True, or False when the query raises
SupabaseHealthCheck(db) == db = "ok"
DbOutcomes == {"ok", "error"}

\* POST /rad/enrich, lines 61-75: a new orchestrator runs enrich(email, domain) to
\* the await of its fan-out
PostEnrich ==
    /\ route_pc = "idle"
    /\ pc[1] = "waiting"
    /\ route_pc' = "enriching"
    /\ EnrichBegin(1, FALSE)
    /\ UNCHANGED <<response, finalize_table, get_response, health_response,
                   compliance_result, upsert_calls, llmVars,
                   inputVars, sem_value, raw_table, batch_result, fnVars, adapter_outcome>>

\* enrich resumes after the fan-out and ends.  When it raises, the handler answers
\* with the status of its except clause; when it returns, the handler goes on to
\* generate_personalization (lines 78-79), up to its first provider call.
PostEnrichResume(failAt, exc) ==
    /\ route_pc = "enriching"
    /\ pc[1] = "fetching"
    /\ GatherDone(fetched[1])
    /\ EnrichEnd(1, failAt, FALSE)
    /\ IF failAt # 0
       THEN /\ route_pc' = "responded"
            /\ response' = RouteStatus(exc)
            /\ UNCHANGED llmVars
       ELSE /\ exc = "Exception"
            /\ route_pc' = "personalizing"
            /\ GenerateBegin(ProfileForLLM(ResolveProfile(FetchAllSources(fetched[1]))))
            /\ UNCHANGED response
    /\ UNCHANGED <<finalize_table, get_response, health_response, compliance_result,
                   upsert_calls, inputVars, sem_value, fetched, batch_result, fnVars,
                   adapter_outcome>>

\* one provider call of the handler's generate_personalization
PostPersonalize(out) ==
    /\ route_pc = "personalizing"
    /\ llm_pc = "calling"
    /\ GenerateStep(out)
    /\ UNCHANGED <<routeVars, inputVars, batchVars, fnVars>>

\* The handler after generate_personalization, lines 81-127: when that raised, the
\* except clause answers; else the compliance check, the upsert of the finalize_data
\* record and the answer.
PostFinish(compliance, db) ==
    /\ route_pc = "personalizing"
    /\ llm_pc \in {"returned", "raised"}
    /\ route_pc' = "responded"
    /\ IF llm_pc = "raised"
       THEN /\ response' = RouteStatus("Exception")
            \* neither the check nor the upsert is reached
            /\ compliance = ComplianceResult(TRUE, PyNone, PyNone) /\ db = "ok"
            /\ UNCHANGED <<finalize_table, compliance_result, upsert_calls>>
       ELSE LET rec == FinalizeRecord(emails[1], KeptTexts(llm_result, compliance))
            IN /\ compliance_result' = compliance
               /\ upsert_calls' = Append(upsert_calls, rec)
               /\ IF db = "ok"
                  THEN /\ finalize_table' = Upsert(finalize_table, rec)
                       /\ response' = 200
                  ELSE /\ response' = RouteStatus("Exception")
                       /\ UNCHANGED finalize_table
    /\ UNCHANGED <<get_response, health_response, llmVars, inputVars, batchVars, fnVars>>

\* GET /rad/profile/{email}, lines 158-213
GetProfile(e, db) ==
    LET email == NormalizeEmail(e)
        finalized_record == GetFinalizeData(finalize_table, email, db)
    IN /\ get_response' =
              [status |-> IF finalized_record = NoRecord THEN 404 ELSE 200,
               email |-> email,
               stored |-> \E r \in finalize_table : r.email = email,
               db |-> db]
       /\ UNCHANGED <<route_pc, response, finalize_table, health_response,
                      compliance_result, upsert_calls, llmVars,
                      inputVars, batchVars, fnVars>>

\* GET /rad/health, lines 224-236
HealthCheck(db) ==
    LET is_healthy == SupabaseHealthCheck(db)
    IN /\ health_response' =
              [status |-> 200,
               body |-> IF is_healthy THEN "healthy" ELSE "unhealthy",
               db |-> db]
       /\ UNCHANGED <<route_pc, response, finalize_table, get_response,
                      compliance_result, upsert_calls, llmVars,
                      inputVars, batchVars, fnVars>>


InitRoute ==
    /\ \E req \in RequestEmails : InitCalls(<<NormalizeEmail(req)>>)
    /\ concurrency = 0
    /\ sem_value = 0
    /\ kind \in BatchConfigs
    /\ fn_pc = {}
    /\ fn_raw = EmptyDict
    /\ fn_sources = <<>>
    /\ fn_profile = EmptyDict
    /\ fn_out = FnNoOut
    /\ InitRoutesIdle
    /\ llm_pc = "idle"
    /\ llm_providers \in {LLMServiceInit({}), LLMServiceInit({"anthropic"})}
    /\ llm_attempt = 0
    /\ llm_calls = <<>>
    /\ llm_chain = NoLLMChain
    /\ llm_profile = NoLLMProfile
    /\ llm_result = NoLLMResult

NextRoute ==
    \/ PostEnrich
    \/ \E s \in Sources, env \in BatchEnvOutcomes : AdapterReturn(1, s, env)
    \/ \E failAt \in FailPoints, exc \in {"ValueError", "Exception"} : PostEnrichResume(failAt, exc)
    \/ \E out \in {ProviderOutcome("exception", JMissing, JMissing),
                    ProviderOutcome("json", JStr(<<"x">>), JStr(<<"x">>)),
                    ProviderOutcome("json", JNull, JStr(<<"x">>))} : PostPersonalize(out)
    \/ \E compliance \in ComplianceResults, db \in DbOutcomes : PostFinish(compliance, db)
    \/ \E e \in RequestEmails, db \in DbOutcomes : GetProfile(e, db)
    \/ \E db \in DbOutcomes : HealthCheck(db)

SpecRoute == InitRoute /\ [][NextRoute]_vars

\* ------------------------------------------------------ _resolve_field alone
MaxCandidates == 3

\* the sources of the candidate lists it is called with: one of the priority table
\* and two that are not in it; each has two source fields
TieSources == {"pdl", "clearbit", "fullcontact"}
TieFields == {"name", "alias"}
RECURSIVE ListsUpTo(_, _)
\* the lists of up to n distinct members of S
ListsUpTo(S, n) ==
    IF n = 0 THEN {<<>>}
    ELSE LET shorter == ListsUpTo(S, n - 1)
         IN shorter \cup {Append(l, c) : l \in {m \in shorter : Len(m) = n - 1},
                                         c \in S}
CandidateLists ==
    {l \in ListsUpTo({Cand(s, f) : s \in TieSources, f \in TieFields}, MaxCandidates) :
        l # <<>> /\ \A j, k \in 1..Len(l) : l[j] = l[k] => j = k}

\* what each of these sources may have returned
TieShape(choice, s) ==
    CASE choice = "error" -> ErrorMarker("boom")
      [] choice = "both" -> [k \in TieFields |-> Val(s, k)]
      [] choice = "name" -> [k \in {"name"} |-> Val(s, k)]
      [] choice = "alias" -> [k \in TieFields |-> IF k = "alias" THEN Val(s, k) ELSE PyNone]
      [] choice = "blank" -> [k \in TieFields |-> IF k = "alias" THEN Val(s, k) ELSE Str("")]
TieRaws ==
    {[s \in TieSources |-> TieShape(pick[s], s)] :
     pick \in [TieSources -> {"error", "both", "name", "alias", "blank"}]}

InitField ==
    /\ InitCalls(<<>>)
    /\ concurrency = 0
    /\ sem_value = 0
    /\ kind = [s \in Sources |-> "keyed"]
    /\ fn_pc = {}
    /\ fn_raw \in TieRaws
    /\ fn_sources \in CandidateLists
    /\ fn_profile = EmptyDict
    /\ fn_out = FnNoOut
    /\ InitRoutesIdle
    /\ InitLLMIdle

\* _resolve_field(field, sources, raw_data)
CallResolveField ==
    /\ "field" \notin fn_pc
    /\ fn_pc' = fn_pc \cup {"field"}
    /\ fn_out' = [fn_out EXCEPT !.value = ResolveField(fn_sources, fn_raw)]
    /\ UNCHANGED <<svcVars, inputVars, batchVars, fn_raw, fn_sources, fn_profile>>

SpecField == InitField /\ [][CallResolveField]_vars

\* ------------------------------------------------------ should_use_opus alone
\* vip_domains of should_use_opus
VipDomains == {"google.com", "microsoft.com", "apple.com", "amazon.com"}

\* should_use_opus(profile): the score is in units of 1/ScoreOne, so that
\* `quality_score >= 0.8` reads 10 * quality_score >= 8 * ScoreOne
ShouldUseOpus_strict(profile) ==
    LET quality_score == GetOr(profile, "data_quality_score", 0)
        domain == GetOr(profile, "domain", "")
    IN IF 10 * quality_score > 8 * ScoreOne THEN TRUE
       ELSE domain \in VipDomains
ShouldUseOpus(profile) ==
    LET quality_score == GetOr(profile, "data_quality_score", 0)
        domain == GetOr(profile, "domain", "")
    IN IF 10 * quality_score >= 8 * ScoreOne THEN TRUE
       ELSE IF domain \in VipDomains THEN TRUE
       ELSE FALSE

\* the profiles it is called with: a score from 0 to 1 in steps of 0.05, or just
\* under or over 0.8, or none; a VIP domain, another domain, "" or none
OpusProfiles ==
    LET OpusScores == {(k * ScoreOne) \div 20 : k \in 0..20}
                      \cup {(8 * ScoreOne) \div 10 - 1, (8 * ScoreOne) \div 10 + 1}
        OpusDomains == VipDomains \cup {"smallco.com", "acme.com", "mail.google.com", ""}
    IN
    {[k \in {"data_quality_score", "domain"} |->
         IF k = "domain" THEN d ELSE q] : q \in OpusScores, d \in OpusDomains}
    \cup {[k \in {"data_quality_score"} |-> q] : q \in OpusScores}
    \cup {[k \in {"domain"} |-> d] : d \in OpusDomains}
    \cup {EmptyDict}

InitOpus ==
    /\ InitCalls(<<>>)
    /\ concurrency = 0
    /\ sem_value = 0
    /\ kind = [s \in Sources |-> "keyed"]
    /\ fn_pc = {}
    /\ fn_raw = EmptyDict
    /\ fn_sources = <<>>
    /\ fn_profile \in OpusProfiles
    /\ fn_out = FnNoOut
    /\ InitRoutesIdle
    /\ InitLLMIdle

\* should_use_opus(profile)
CallShouldUseOpus ==
    /\ "opus" \notin fn_pc
    /\ fn_pc' = fn_pc \cup {"opus"}
    /\ fn_out' = [fn_out EXCEPT !.use_opus = ShouldUseOpus(fn_profile)]
    /\ UNCHANGED <<svcVars, inputVars, batchVars, fn_raw, fn_sources, fn_profile>>

SpecOpus == InitOpus /\ [][CallShouldUseOpus]_vars

\* ================================================================ claims
Range(seq) == {seq[k] : k \in 1..Len(seq)}
IsPrefix(a, b) == Len(a) <= Len(b) /\ SubSeq(b, 1, Len(a)) = a

\* the calls that hold a permit of the admission gate
InFlight == {i \in Calls : pc[i] = "fetching"}
\* raw_data of call i, once its fan-out has returned
RawOf(i) == FetchAllSources(fetched[i])
\* the source names in the list a returned profile refers to
DataSourcesOf(r) == NamesOf(lists[r.data_sources])

\* ---- C1: in enrich_batch with limit N >= 1, at most N resolutions hold the
\* admission gate (are executing enrich, FETCHING included) in every reachable state.
C1_AdmissionBound ==
    /\ Cardinality(InFlight) <= concurrency
    /\ sem_value = concurrency - Cardinality(InFlight)

\* the gate is full and a resolution waits for it
C1_Witness ==
    /\ Cardinality(InFlight) = concurrency
    /\ \E i \in Calls : pc[i] = "waiting"

\* ---- C2: whatever the interleaving of the resolutions of one enrich_batch, each
\* returned profile's data_sources lists exactly the usable sources of its own fetch.
C2_OwnDataSources ==
    \A i \in Calls :
        result[i].kind = "profile" => DataSourcesOf(result[i]) = UsableSeq(RawOf(i))

\* ---- C3: the data_sources of every returned profile has at most as many entries as
\* there are configured adapters (5).
C3_DataSourcesLength ==
    \A i \in Calls :
        result[i].kind = "profile" => Len(DataSourcesOf(result[i])) <= Len(SourceNames)

\* ---- C4: enrich_batch returns one result per input email, the i-th for the i-th
\* email; a failed resolution yields an entry with that email and an error marker, does
\* not raise out of enrich_batch, and leaves every other email's entry as it would be:
\* no other entry holds anything the failed resolution wrote.
FailedCall(i) == stages[i] # <<>> /\ stages[i][Len(stages[i])] = "FAILED"
C4_BatchIsolation ==
    /\ \A i \in Calls : pc[i] # "raised"
    /\ batch_result # <<>> =>
         /\ Len(batch_result) = Len(emails)
         /\ \A i \in Calls :
              /\ batch_result[i].email = emails[i]
              /\ FailedCall(i) <=> batch_result[i].kind = "error"
              /\ ~FailedCall(i) <=> batch_result[i].kind = "profile"
         /\ \A i, j \in Calls :
              (i # j /\ batch_result[i].kind = "profile" /\ batch_result[j].kind = "error")
                 => \A k \in 1..Len(lists[batch_result[i].data_sources]) :
                        lists[batch_result[i].data_sources][k].by # j

\* ---- C5: the fan-out returns a mapping with exactly one entry for each of the five
\* source names; an adapter that raised, or a name without an adapter, gives an error
\* marker for that source only, the other sources keep their own payloads, and no
\* exception leaves a fan-out task.
C5_FanOut ==
    \A i \in Calls :
        GatherDone(fetched[i]) =>
            /\ DOMAIN RawOf(i) = Sources
            /\ Cardinality(DOMAIN RawOf(i)) = 5
            /\ \A s \in Sources :
                 /\ fetched[i][s].t = "return"
                 /\ adapter_outcome[i][s] \in {"raise", "unknown"} => HasErrorMarker(RawOf(i)[s])
                 /\ adapter_outcome[i][s] = "return" =>
                        RawOf(i)[s] = IF kind[s] = "keyed" THEN RealPayload(s) ELSE MockPayload(s)

\* two adapters raised, one name has no adapter, and a keyed adapter returned its payload
C5_Witness ==
    \E i \in Calls :
        /\ GatherDone(fetched[i])
        /\ Cardinality({s \in Sources : adapter_outcome[i][s] = "raise"}) = 2
        /\ \E s \in Sources : adapter_outcome[i][s] = "unknown"
        /\ \E s \in Sources : adapter_outcome[i][s] = "return" /\ kind[s] = "keyed"

\* ---- C6: within one resolution the stages occur in the order START, FETCHING,
\* RESOLVING, SCORED, DONE (or end in FAILED); resolution starts only when all five
\* adapter calls have returned or errored, and a profile with score and metadata exists
\* only after resolution; this holds for every call of a batch, whatever the interleaving.
StageOrder == <<"START", "FETCHING", "RESOLVING", "SCORED", "DONE">>
C6_StageOrder ==
    \A i \in Calls :
        /\ \/ IsPrefix(stages[i], StageOrder)
           \/ /\ FailedCall(i)
              /\ IsPrefix(SubSeq(stages[i], 1, Len(stages[i]) - 1), StageOrder)
        /\ "RESOLVING" \in Range(stages[i]) =>
               \A s \in Sources : fetched[i][s].t # "pending"
        /\ result[i].kind = "profile" <=> stages[i] = StageOrder

\* one call of the batch is DONE while another is in the middle of its fan-out
C6_Witness ==
    \E i, j \in Calls :
        /\ stages[i] = StageOrder
        /\ pc[j] = "fetching"
        /\ \E s \in Sources : fetched[j][s].t = "pending"
        /\ \E s \in Sources : fetched[j][s].t # "pending"

\* The candidates of field f that survive: the source result has no error marker and
\* the field value is neither null nor the empty string.
Survivors(f, raw) ==
    {k \in 1..Len(SourcesOf(f)) :
        LET c == SourcesOf(f)[k]
        IN /\ ~HasErrorMarker(raw[c.source])
           /\ Get(raw[c.source], c.field) \notin {PyNone, Str("")}}
ValueAt(f, k, raw) == Get(raw[SourcesOf(f)[k].source], SourcesOf(f)[k].field)
PriorityAt(f, k) == PriorityOf(SourcesOf(f)[k].source)

C8_AbsentWithoutCandidate ==
    "resolve" \in fn_pc =>
        \A f \in GenericFields :
            Survivors(f, fn_raw) = {} => f \notin DOMAIN fn_out.normalized

\* one candidate has an error marker, one an empty string, and the field is absent
C8_Witness ==
    /\ "resolve" \in fn_pc
    /\ \E f \in GenericFields :
         /\ Survivors(f, fn_raw) = {}
         /\ \E k \in 1..Len(SourcesOf(f)) : HasErrorMarker(fn_raw[SourcesOf(f)[k].source])
         /\ \E k \in 1..Len(SourcesOf(f)) : ValueAt(f, k, fn_raw) = Str("")
         /\ \E k \in 1..Len(SourcesOf(f)) :
                /\ ~HasErrorMarker(fn_raw[SourcesOf(f)[k].source])
                /\ ValueAt(f, k, fn_raw) = PyNone
         /\ f \notin DOMAIN fn_out.normalized

\* ---- C9: for a single resolution, a source is in data_sources if and only if its
\* result is non-empty and carries no error marker; a source whose adapter raised,
\* whatever the message, is never in data_sources.
C9_DataSourcesIffUsable ==
    \A i \in Calls :
        result[i].kind = "profile" =>
            \A s \in Sources :
                /\ s \in Range(DataSourcesOf(result[i])) <=>
                       (DictTruthy(RawOf(i)[s]) /\ ~HasErrorMarker(RawOf(i)[s]))
                /\ adapter_outcome[i][s] = "raise" => s \notin Range(DataSourcesOf(result[i]))

\* ---- C10: data_quality_score lies in [0, 1]; it is 0 when every source result has an
\* error marker; it is above 0 when a non-mock source succeeded with data.
C10_ScoreRange ==
    \A i \in Calls :
        result[i].kind = "profile" =>
            /\ result[i].data_quality_score >= 0
            /\ result[i].data_quality_score <= ScoreOne
            /\ (\A s \in Sources : HasErrorMarker(RawOf(i)[s])) =>
                   result[i].data_quality_score = 0
            /\ (\E s \in Sources : /\ DictTruthy(RawOf(i)[s])
                                   /\ ~HasErrorMarker(RawOf(i)[s])
                                   /\ ~Truthy(Get(RawOf(i)[s], "_mock"))) =>
                   result[i].data_quality_score > 0

\* the sources of a fetch outcome that returned data, without error marker or mock flag
RealSources(raw) ==
    {s \in DOMAIN raw :
        DictTruthy(raw[s]) /\ ~HasErrorMarker(raw[s]) /\ ~Truthy(Get(raw[s], "_mock"))}

\* ---- C11: for the five configured sources, data_quality_score is non-decreasing in
\* the number of non-mock, non-error sources that returned data: an outcome with no
\* more such sources than another has a score no greater than the other's.
C11_ScoreMonotone ==
    ("score" \in fn_pc /\ fn_raw \in StatusRaws) =>
        \A b \in StatusRaws :
            Cardinality(RealSources(fn_raw)) <= Cardinality(RealSources(b)) =>
                fn_out.score <= CalculateQualityScore(b, TotalSources)

\* the outcome raw with the sources of S replaced by their providers' data
WithReal(raw, S) == [s \in DOMAIN raw |-> IF s \in S THEN RealPayload(s) ELSE raw[s]]

\* C11 as it holds: the score does not go down when sources come to return data
\* without mock flag or error marker, the results of the other sources staying as
\* they are.
C11_ScoreMonotoneAdded ==
    ("score" \in fn_pc /\ fn_raw \in StatusRaws) =>
        \A S \in SUBSET Sources :
            fn_out.score <= CalculateQualityScore(WithReal(fn_raw, S), TotalSources)

\* a scored outcome with a mock result and an error marker, which gains by a source
C11_Witness ==
    /\ "score" \in fn_pc
    /\ fn_raw \in StatusRaws
    /\ \E s \in Sources : Truthy(Get(fn_raw[s], "_mock"))
    /\ \E s \in Sources : HasErrorMarker(fn_raw[s])
    /\ \E s \in Sources :
           fn_out.score < CalculateQualityScore(WithReal(fn_raw, {s}), TotalSources)

\* ---- C12: whatever each source gave (data, mock data, an error marker, a raised
\* exception), an enrich of a well-formed email whose store_raw_data calls work
\* reaches DONE and returns a profile; when all five sources carry error markers the
\* profile has no resolved field, an empty data_sources and a data_quality_score of 0.
C12_PartialCoverageSucceeds ==
    [][\A i \in Calls :
          EnrichReturn(i, 0) =>
              /\ result'[i].kind = "profile"
              /\ stages'[i] = StageOrder
              /\ (\A s \in Sources : HasErrorMarker(RawOf(i)[s])) =>
                     /\ result'[i].fields = EmptyDict
                     /\ lists'[result'[i].data_sources] = <<>>
                     /\ result'[i].data_quality_score = 0]_vars

\* ---- C15: generate_personalization never propagates a failure: whatever the
\* providers do (raise, answer nothing, answer text that is no JSON, answer JSON whose
\* intro_hook or cta is missing or is not a string), it returns a result whose
\* intro_hook and cta are both non-empty.
C15_NeverPropagates ==
    /\ llm_pc # "raised"
    /\ llm_pc = "returned" => (llm_result.intro_hook # <<>> /\ llm_result.cta # <<>>)

\* ---- C20: on every path of generate_personalization, parsed provider answer or
\* mock response, the returned intro_hook has at most MAX_INTRO_LENGTH characters and
\* the returned cta at most MAX_CTA_LENGTH.
C20_LengthLimits ==
    llm_pc = "returned" =>
        /\ Len(llm_result.intro_hook) <= MAX_INTRO_LENGTH
        /\ Len(llm_result.cta) <= MAX_CTA_LENGTH

\* a provider's answer was cut at both limits, after a failed attempt
C20_Witness ==
    /\ llm_pc = "returned"
    /\ llm_result.model_used = "anthropic"
    /\ llm_attempt = MAX_RETRIES
    /\ Len(llm_result.intro_hook) = MAX_INTRO_LENGTH
    /\ llm_result.intro_hook[MAX_INTRO_LENGTH] = "."
    /\ Len(llm_result.cta) = MAX_CTA_LENGTH
    /\ llm_result.cta[MAX_CTA_LENGTH] = "."

\* ---- C16: an adapter's enrich(email, domain) never throws past its own boundary: a
\* timeout, a network failure and an HTTP error status each give a returned error
\* result, so the caller of an adapter only ever sees a payload or an error marker.
C16_AdapterNeverThrows ==
    \A i \in Calls, s \in Sources : adapter_outcome[i][s] # "raise"

\* C16 as it holds: the adapter's enrich raises on a timeout, a network failure and
\* an HTTP error status, and _fetch_with_fallback, through which the orchestrator calls
\* every adapter, never throws: it returns a payload or an error marker, the marker of a
\* timeout reading "<source>: Request timeout".
C16_FallbackNeverThrows ==
    /\ [](\A i \in Calls, s \in Sources :
            /\ fetched[i][s].t # "raise"
            /\ adapter_outcome[i][s] = "raise" => HasErrorMarker(fetched[i][s].dict))
    /\ [][\A i \in Calls, s \in Sources :
            (kind[s] = "keyed" /\ AdapterReturn(i, s, "timeout")) =>
                fetched'[i][s] = Returned(ErrorMarker(s \o ": Request timeout"))]_vars

\* an adapter raised on a timeout and its task returned the marker with the reason
C16_Witness ==
    \E i \in Calls, s \in Sources :
        /\ adapter_outcome[i][s] = "raise"
        /\ fetched[i][s] = Returned(ErrorMarker(s \o ": Request timeout"))

\* the resolution of the request failed while resolving or scoring
FailedInResolution(i) == FailedCall(i) /\ "RESOLVING" \in Range(stages[i])
HasRecord(e) == \E r \in finalize_table : r.email = e

\* ---- C13: when an unexpected exception occurs inside a resolution, during RESOLVING
\* or SCORED, the resolution ends in FAILED: enrich raises to the caller, no partial
\* profile is returned, and nothing has been persisted for it, neither a raw payload
\* nor the final record.
C13_NothingPersisted ==
    \A i \in Calls :
        FailedInResolution(i) =>
            /\ result[i].kind = "raised"
            /\ raw_table[i] = <<>>
            /\ ~HasRecord(emails[i])

\* C13 as it holds: the resolution ends in FAILED, enrich raises, the handler answers
\* with an error status, no profile is returned and no final record is written; the
\* raw payloads of the usable sources, stored before RESOLVING, stay stored.
C13_NoProfileNoFinalRecord ==
    \A i \in Calls :
        FailedInResolution(i) =>
            /\ result[i].kind = "raised"
            /\ pc[i] = "raised"
            /\ route_pc = "responded"
            /\ response \in {400, 500}
            /\ ~HasRecord(emails[i])
            /\ raw_table[i] = UsableSeq(RawOf(i))

\* a resolution failed while scoring, with raw payloads in the store
C13_Witness ==
    \E i \in Calls :
        /\ FailedInResolution(i)
        /\ "SCORED" \in Range(stages[i])
        /\ raw_table[i] # <<>>
        /\ response = 500

\* ---- C14: in POST /enrich the resolved profile is persisted before the
\* personalization and compliance stages run, so a raised exception in either stage
\* leaves the resolved record of the email stored and retrievable.
C14_PersistedBeforeDownstream ==
    \A i \in Calls :
        (result[i].kind = "profile" /\ route_pc \in {"personalizing", "responded"}) =>
            HasRecord(emails[i])

\* ---- C17: GET /profile/{email} answers 404 exactly when no record exists for the
\* normalized email; a persistence failure during the lookup is answered 500, never
\* 404.
C17_NotFoundOnlyWhenAbsent ==
    get_response.status # 0 =>
        /\ get_response.status = 404 <=> (get_response.db = "ok" /\ ~get_response.stored)
        /\ get_response.db = "error" => get_response.status = 500

\* ---- C18: GET /health answers 503 whenever the persistence health check fails, and
\* 200 only when the store is healthy.
C18_UnhealthyIs503 ==
    health_response.status # 0 =>
        /\ health_response.db = "error" => health_response.status = 503
        /\ health_response.status = 200 => health_response.db = "ok"

\* ---- C19: raw payloads are stored exactly once for each source in data_sources,
\* only after all five fetches have completed and before field resolution starts, so
\* they remain in the store when resolution, scoring or a later stage fails.
C19_RawStoredOnceAndKept ==
    /\ [](\A i \in Calls :
            /\ raw_table[i] # <<>> => GatherDone(fetched[i])
            /\ \A k, m \in 1..Len(raw_table[i]) : raw_table[i][k] = raw_table[i][m] => k = m
            /\ result[i].kind = "profile" => raw_table[i] = DataSourcesOf(result[i])
            /\ "RESOLVING" \in Range(stages[i]) => raw_table[i] = UsableSeq(RawOf(i)))
    /\ [][\A i \in Calls : IsPrefix(raw_table[i], raw_table'[i])]_vars

NonEmptyNoMarker(d) == DictTruthy(d) /\ ~HasErrorMarker(d)

\* ---- C22: the quality score equals min(1, c/5 + b), c being the number of source
\* results that are non-empty, without error marker and not mock, and b being 0.1 for
\* apollo plus 0.1 for zoominfo when that source's result is non-empty and without
\* error marker, mock or not; so all five results being mock gives 0.2.
C22_ScoreFormula ==
    ("score" \in fn_pc /\ fn_raw \in StatusRaws) =>
        LET c == Cardinality({s \in Sources :
                     NonEmptyNoMarker(fn_raw[s]) /\ ~Truthy(Get(fn_raw[s], "_mock"))})
            b == (IF NonEmptyNoMarker(fn_raw["apollo"]) THEN ScoreOne \div 10 ELSE 0)
                 + (IF NonEmptyNoMarker(fn_raw["zoominfo"]) THEN ScoreOne \div 10 ELSE 0)
        IN fn_out.score = Min(ScoreOne, (c * ScoreOne) \div 5 + b)

\* the candidates of the list that survive, and those of them of the highest priority
SurvivorsOf(sources, raw) == {k \in 1..Len(sources) : Survives(sources[k], raw)}
TopSurvivors(sources, raw) ==
    {k \in SurvivorsOf(sources, raw) :
        \A j \in SurvivorsOf(sources, raw) :
            PriorityOf(sources[j].source) <= PriorityOf(sources[k].source)}
FirstOf(S) == CHOOSE k \in S : \A j \in S : k <= j

\* ---- C23: when two surviving candidates of a field share the highest source
\* priority (two sources absent from the priority table, both ranked 0, included), the
\* resolved value is that of the one that comes first in the field's candidate list.
C23_TieFirstInList ==
    "field" \in fn_pc =>
        LET top == TopSurvivors(fn_sources, fn_raw)
        IN Cardinality(top) >= 2 =>
               LET c == fn_sources[FirstOf(top)]
               IN fn_out.value = fn_raw[c.source][c.field]

\* two sources absent from the priority table tied, their values differing, behind a
\* candidate that did not survive
C23_Witness ==
    /\ "field" \in fn_pc
    /\ Len(fn_sources) = 3
    /\ TopSurvivors(fn_sources, fn_raw) = {2, 3}
    /\ PriorityOf(fn_sources[2].source) = 0
    /\ fn_sources[2].source # fn_sources[3].source
    /\ fn_out.value = Val(fn_sources[2].source, fn_sources[2].field)
    /\ fn_out.value # Val(fn_sources[3].source, fn_sources[3].field)

\* a dict cut down to some of its keys
Restrict(d, keys) == [k \in DOMAIN d \cap keys |-> d[k]]
\* raw data that differs from raw in the result of one source other than `keep`
OtherSourceChanged(raw, keep) ==
    {[raw EXCEPT ![s] = StatusShape(c, s)] : s \in Sources \ {keep}, c \in StatusChoices}

\* ---- C24: the special-cased fields come from one source only, outside priority
\* competition: email_verified, email_score and email_deliverable are present if and
\* only if the hunter result is non-empty and error-free, and depend only on the hunter
\* result; company_context and recent_news are present if and only if the tavily
\* result is non-empty and error-free, and depend only on the tavily result; no other
\* source's result can change them.
C24_SpecialFieldsOneSource ==
    ("resolve" \in fn_pc /\ fn_raw \in StatusRaws) =>
        LET n == fn_out.normalized
        IN /\ \A f \in HunterFields : f \in DOMAIN n <=> NonEmptyNoMarker(fn_raw["hunter"])
           /\ \A f \in TavilyFields : f \in DOMAIN n <=> NonEmptyNoMarker(fn_raw["tavily"])
           /\ \A other \in OtherSourceChanged(fn_raw, "hunter") :
                  Restrict(ResolveProfile(other), HunterFields) = Restrict(n, HunterFields)
           /\ \A other \in OtherSourceChanged(fn_raw, "tavily") :
                  Restrict(ResolveProfile(other), TavilyFields) = Restrict(n, TavilyFields)

\* the position of a member in a list without repetitions
IndexIn(seq, x) == CHOOSE k \in 1..Len(seq) : seq[k] = x
\* the calls made to one provider
CallsTo(calls, p) == {k \in 1..Len(calls) : calls[k].provider = p}

\* ---- C25: the fallback chain tries the providers strictly in configured order
\* (anthropic, openai, gemini); each provider is called at most MAX_RETRIES (2) times; a
\* later provider is called only after every attempt of all earlier providers failed;
\* the first non-empty response ends the chain and is returned with that provider's
\* name; at most 2 times the number of providers calls are made, after which
\* (None, "none") is returned and the caller falls back to the mock response.
C25_FallbackChain ==
    LET n == Len(llm_calls)
        Pos(k) == IndexIn(llm_providers, llm_calls[k].provider)
    IN /\ \A j, k \in 1..Len(llm_providers) :
              j < k => IndexIn(ProviderNames, llm_providers[j]) < IndexIn(ProviderNames, llm_providers[k])
       /\ \A k \in 1..n : llm_calls[k].provider \in Range(llm_providers)
       /\ \A j, k \in 1..n : j < k => Pos(j) <= Pos(k)
       /\ \A p \in Range(llm_providers) : Cardinality(CallsTo(llm_calls, p)) <= 2
       /\ \A k \in 1..n : \A q \in 1..(Pos(k) - 1) :
              LET earlier == CallsTo(llm_calls, llm_providers[q])
              IN /\ Cardinality(earlier) = MAX_RETRIES
                 /\ \A j \in earlier : j < k /\ ~llm_calls[j].ok
       /\ \A k \in 1..n : llm_calls[k].ok =>
              /\ k = n
              /\ llm_pc # "calling"
              /\ llm_chain.t = "return"
              /\ llm_chain.content \notin {"none", "empty"}
              /\ llm_chain.provider = llm_calls[k].provider
       /\ n <= 2 * Len(llm_providers)
       /\ (n = 2 * Len(llm_providers) /\ n > 0 /\ ~llm_calls[n].ok) =>
              /\ llm_chain = ChainReturn("none", "none")
              /\ llm_pc = "returned"
              /\ llm_result.model_used = "mock"
       /\ (n < 2 * Len(llm_providers) /\ (n = 0 \/ ~llm_calls[n].ok)) =>
              (llm_chain.t = "pending" /\ llm_pc \in {"idle", "calling"})

\* the first provider failed twice and the second answered at its second attempt
C25_Witness ==
    /\ Len(llm_providers) = 2
    /\ Len(llm_calls) = 2 * MAX_RETRIES
    /\ llm_calls[Len(llm_calls)].ok
    /\ llm_chain.t = "return"
    /\ llm_chain.provider = llm_providers[2]
    /\ llm_result.model_used = llm_providers[2]

\* ---- C26: for any concurrency limit N >= 1 and any finite email list, if every
\* adapter call and persistence call terminates then enrich_batch eventually returns,
\* every waiting resolution is eventually admitted, and every acquired permit has been
\* released at the end, including permits held by resolutions that failed.
C26_BatchTerminates ==
    /\ <>(batch_result # <<>>)
    /\ \A i \in 1..NumEmails : (pc[i] = "waiting") ~> (pc[i] # "waiting")
    /\ [](batch_result # <<>> => sem_value = concurrency)

\* the batch returned with every permit back; a resolution had failed holding one, and
\* a resolution had waited for a permit
C26_Witness ==
    /\ batch_result # <<>>
    /\ sem_value = concurrency
    /\ concurrency < Len(emails)
    /\ \E i \in Calls : result[i].kind = "error" /\ "FETCHING" \in Range(stages[i])

\* ---- C27: every key present in the profile returned by the resolver maps to a
\* non-null value (presence implies a resolved value), for the generic fields and also
\* for the special-cased email_score, company_context and recent_news when hunter or
\* tavily returned a usable result that lacks score or answer.
C27_PresenceImpliesValue ==
    "resolve" \in fn_pc =>
        \A f \in DOMAIN fn_out.normalized : fn_out.normalized[f] # PyNone

\* ---- C28: in POST /enrich, whenever the compliance check does not pass, the intro
\* and CTA written by the single upsert of the final record are either the
\* compliance-corrected texts or the safe fallback texts, never the originally
\* generated texts; the upsert happens after the compliance check on every successful
\* path.
C28_FailedCheckNeverWritesGenerated ==
    /\ Len(upsert_calls) <= 1
    /\ upsert_calls # <<>> => compliance_result.t = "result"
    /\ response = 200 => (Len(upsert_calls) = 1 /\ upsert_calls[1] \in finalize_table)
    /\ (compliance_result.t = "result" /\ ~compliance_result.passed) =>
           \A k \in 1..Len(upsert_calls) :
               LET rec == upsert_calls[k]
               IN /\ \/ /\ rec.intro = compliance_result.corrected_intro
                        /\ rec.cta = compliance_result.corrected_cta
                     \/ /\ rec.intro = SafeIntro
                        /\ rec.cta = SafeCta
                  /\ rec.intro # Generated(llm_result.intro_hook)
                  /\ rec.cta # Generated(llm_result.cta)

\* the check did not pass and gave corrected texts, and the record written holds them
C28_Witness ==
    /\ response = 200
    /\ compliance_result.t = "result"
    /\ ~compliance_result.passed
    /\ llm_result.model_used = "anthropic"
    /\ \E rec \in finalize_table :
           /\ rec.email = emails[1]
           /\ rec.intro = Str("corrected_intro")
           /\ rec.cta = Str("corrected_cta")

\* ---- C29: in generate_personalization the fallback chain advances to another
\* attempt or provider only when a call raises or returns empty text; once a provider
\* returns non-empty text that then fails parsing, no further provider is tried and
\* the mock response (model_used = "mock") is returned.
C29_ParseFailureEndsInMock ==
    /\ \A k \in 1..(Len(llm_calls) - 1) : ~llm_calls[k].ok
    /\ (llm_chain.t = "return" /\ llm_chain.parsed \in {"none", "raise"}) =>
           /\ llm_calls[Len(llm_calls)].ok
           /\ llm_pc = "returned"
           /\ llm_result.model_used = "mock"

\* the value of the first candidate of the list that survives, None without one
FirstUsable(sources, raw) ==
    IF SurvivorsOf(sources, raw) = {} THEN PyNone
    ELSE LET c == sources[FirstOf(SurvivorsOf(sources, raw))]
         IN raw[c.source][c.field]

\* ---- C30: in the shipped field map every candidate list is ordered by strictly
\* descending SOURCE_PRIORITY, so for every raw-data set the priority-based selection
\* of _resolve_field returns the same value as taking the first usable candidate in
\* list order.
C30_PriorityIsListOrder ==
    /\ \A f \in GenericFields : \A j, k \in 1..Len(SourcesOf(f)) :
           j < k => PriorityOf(SourcesOf(f)[j].source) > PriorityOf(SourcesOf(f)[k].source)
    /\ "resolve" \in fn_pc =>
           \A f \in GenericFields :
               LET first == FirstUsable(SourcesOf(f), fn_raw)
               IN /\ f \in DOMAIN fn_out.normalized <=> first # PyNone
                  /\ f \in DOMAIN fn_out.normalized => fn_out.normalized[f] = first

\* all three candidates of a field survived, the first two with different values, and
\* the field holds the value of the first
C30_Witness ==
    /\ "resolve" \in fn_pc
    /\ \E f \in GenericFields :
         /\ Survivors(f, fn_raw) = {1, 2, 3}
         /\ ValueAt(f, 1, fn_raw) # ValueAt(f, 2, fn_raw)
         /\ ValueAt(f, 2, fn_raw) # ValueAt(f, 3, fn_raw)
         /\ fn_out.normalized[f] = ValueAt(f, 1, fn_raw)

====
